---- MODULE Spec2Model ----
(***************************************************************************)
(* A model of FastSet (src/src/lib.rs): a sparse set of usize keys below a *)
(* capacity, kept in two raw heap buffers (sparse, backref) plus len/cap.  *)
(* The heap is modelled explicitly: a buffer is a block at an address, a   *)
(* set holds the two addresses.  Memory that alloc/realloc leave           *)
(* uninitialised holds the value Uninit; an access outside a live block,   *)
(* or the use of an uninitialised word as an index, raises the flag ub.    *)
(***************************************************************************)
EXTENDS Integers, Sequences, FiniteSets, TLC

\* Bounds of the model: the largest capacity passed to new when one set is
\* explored alone (MaxCap) and when two sets are explored together (PairCap),
\* and the number of block addresses the allocator can hand out.
MaxCap == 3
PairCap == 2
NumAddrs == 5

\* The largest value found in memory that nothing has initialised, where such
\* memory is given contents instead of being treated as unreadable.
MaxJunk == 2

\* usize and isize are modelled UsizeBits wide (64 in the build the source is
\* written for); WordBytes is size_of::<usize>() of that build.
UsizeBits == 10
WordBytes == 8
UsizeMax == 2^UsizeBits - 1
IsizeMax == 2^(UsizeBits - 1) - 1

\* x as isize: the same bits read as a signed integer.
as_isize(x) == IF x > IsizeMax THEN x - 2^UsizeBits ELSE x

\* Layout::array::<usize>(n): refused when n elements, rounded up to the
\* alignment, do not fit in isize::MAX bytes.
LayoutArray(n) ==
    IF n > (IsizeMax + 1 - WordBytes) \div WordBytes
    THEN [err |-> TRUE, size |-> 0]
    ELSE [err |-> FALSE, size |-> n * WordBytes]

Slots == {1, 2}
Caps(n) == 0..n
KeysFor(n) == 0..(n + 1)
Keys == KeysFor(MaxCap)
Addrs == 1..NumAddrs

\* The null pointer alloc/realloc return on failure, and the content of
\* memory that was allocated but never written.
Null == 0
Uninit == -1

VARIABLES
    heap,         \* address -> [live, data]: the allocator's blocks
    sets,         \* slot -> the FastSet value held in that program variable
    ub,           \* undefined behaviour has been executed
    oom,          \* the allocator may refuse a request (fixed per behaviour)
    present,      \* ghost: slot -> keys added and not since removed/cleared
    ref,          \* ghost: slot -> key order of a reference set rebuilt from scratch
    created_cap,  \* ghost: slot -> the capacity passed to new for that set
    origin,       \* ghost: slot -> the call that last built the set's contents
    last          \* the last call: operation, receiver, argument, result

vars == <<heap, sets, ub, oom, present, ref, created_cap, origin, last>>

----------------------------------------------------------------------------
\* The allocator (std::alloc).  Sizes are counted in usize words.

FreeBlock == [live |-> FALSE, data |-> <<>>]

Fill(n, v) == [j \in 1..n |-> v]

FreeAddrs(h) == {a \in Addrs : ~h[a].live}

MinOf(S) == CHOOSE a \in S : \A b \in S : a <= b

\* A request fails when the allocator refuses it or no address is left.  A
\* request for 0 words (capacity 0) is served with an empty block, as the
\* system allocator does; no access to it is ever valid.
AllocFilled(h, n, v, fail) ==
    IF fail \/ FreeAddrs(h) = {}
    THEN [heap |-> h, ptr |-> Null]
    ELSE LET a == MinOf(FreeAddrs(h))
         IN  [heap |-> [h EXCEPT ![a] = [live |-> TRUE, data |-> Fill(n, v)]],
              ptr |-> a]

alloc(h, n, fail) == AllocFilled(h, n, Uninit, fail)

alloc_zeroed(h, n, fail) == AllocFilled(h, n, 0, fail)

IsBlock(h, p) == p \in Addrs /\ h[p].live

dealloc(h, p) ==
    IF IsBlock(h, p)
    THEN [heap |-> [h EXCEPT ![p] = FreeBlock], ub |-> FALSE]
    ELSE [heap |-> h, ub |-> TRUE]

\* realloc keeps the first min(old, new) words; on failure it returns null and
\* leaves the old block.  Whether the block moves cannot be observed by the
\* program (the old address is dead either way), so it is resized in place.
realloc(h, p, n, fail) ==
    IF ~IsBlock(h, p) THEN [heap |-> h, ptr |-> Null, ub |-> TRUE]
    ELSE IF fail THEN [heap |-> h, ptr |-> Null, ub |-> FALSE]
    ELSE LET old == h[p].data
             new == [j \in 1..n |-> IF j <= Len(old) THEN old[j] ELSE Uninit]
         IN  [heap |-> [h EXCEPT ![p] = [live |-> TRUE, data |-> new]],
              ptr |-> p, ub |-> FALSE]

\* *p.offset(off): the access is defined only inside a live block.
ValidAt(h, p, off) == IsBlock(h, p) /\ off >= 0 /\ off < Len(h[p].data)

Load(h, p, off) == h[p].data[off + 1]

Store(h, p, off, v) == [h EXCEPT ![p].data[off + 1] = v]

----------------------------------------------------------------------------
\* FastSet

NoSet == [alive |-> FALSE, sparse |-> Null, backref |-> Null, len |-> 0, cap |-> 0]

Ok == [tag |-> "Ok", cap |-> 0, key |-> 0]

OutOfBounds(cap, key) == [tag |-> "OutOfBounds", cap |-> cap, key |-> key]

LayoutError == [tag |-> "LayoutError", cap |-> 0, key |-> 0]

\* new computing the byte size with a wrapping multiplication.
new_wrapping_layout(h, cap) ==
    LET size == (cap * WordBytes) % 2^UsizeBits
        a1 == alloc_zeroed(h, cap, FALSE)
        a2 == alloc(a1.heap, cap, FALSE)
    IN  IF size > IsizeMax + 1 - WordBytes
        THEN [heap |-> h, set |-> NoSet, err |-> TRUE]
        ELSE [heap |-> a2.heap,
              set  |-> [alive |-> TRUE, sparse |-> a1.ptr, backref |-> a2.ptr,
                        len |-> 0, cap |-> cap],
              err  |-> FALSE]

\* FastSet::new; err: Layout::array refused the capacity (the ? returns it).
new(h, cap) ==
    LET layout == LayoutArray(cap)
        a1 == alloc_zeroed(h, layout.size \div WordBytes, FALSE)
        a2 == alloc(a1.heap, layout.size \div WordBytes, FALSE)
    IN  IF layout.err
        THEN [heap |-> h, set |-> NoSet, err |-> TRUE]
        ELSE [heap |-> a2.heap,
              set  |-> [alive |-> TRUE, sparse |-> a1.ptr, backref |-> a2.ptr,
                        len |-> 0, cap |-> cap],
              err  |-> FALSE]

\* unchecked_contains deciding by the length bound alone.
unchecked_contains_len_only(h, s, key) ==
    IF ~ValidAt(h, s.sparse, key) THEN {"ub"}
    ELSE LET index == Load(h, s.sparse, key)
         IN  IF index = Uninit THEN {"true", "false", "ub"}
             ELSE IF index >= s.len THEN {"false"} ELSE {"true"}

\* unchecked_contains comparing the back reference without the length guard.
unchecked_contains_no_len_guard(h, s, key) ==
    IF ~ValidAt(h, s.sparse, as_isize(key)) THEN {"ub"}
    ELSE LET index == Load(h, s.sparse, as_isize(key))
         IN  IF index = Uninit THEN {"true", "false", "ub"}
             ELSE IF ~ValidAt(h, s.backref, as_isize(index)) THEN {"ub"}
             ELSE IF Load(h, s.backref, as_isize(index)) = Uninit THEN {"true", "false"}
             ELSE IF Load(h, s.backref, as_isize(index)) = key THEN {"true"} ELSE {"false"}

\* The outcomes of unchecked_contains: "true", "false", or "ub" for an access
\* outside a block; a read of an uninitialised word can give any of them.
unchecked_contains(h, s, key) ==
    IF ~ValidAt(h, s.sparse, as_isize(key)) THEN {"ub"}
    ELSE LET index == Load(h, s.sparse, as_isize(key))
         IN  IF index = Uninit THEN {"true", "false", "ub"}
             ELSE IF index >= s.len THEN {"false"}
             ELSE IF ~ValidAt(h, s.backref, as_isize(index)) THEN {"ub"}
             ELSE IF Load(h, s.backref, as_isize(index)) = Uninit THEN {"true", "false"}
             ELSE IF Load(h, s.backref, as_isize(index)) = key THEN {"true"} ELSE {"false"}

contains(h, s, key) ==
    IF key >= s.cap THEN {"false"} ELSE unchecked_contains(h, s, key)

\* unchecked_add that bumps the length before it writes the two entries.
unchecked_add_len_first(h, s, key) ==
    IF ~ValidAt(h, s.sparse, key) \/ ~ValidAt(h, s.backref, s.len + 1)
    THEN [heap |-> h, set |-> s, ub |-> TRUE]
    ELSE [heap |-> Store(Store(h, s.sparse, key, s.len + 1), s.backref, s.len + 1, key),
          set  |-> [s EXCEPT !.len = s.len + 1],
          ub   |-> FALSE]

unchecked_add(h, s, key) ==
    IF ~ValidAt(h, s.sparse, as_isize(key)) \/ ~ValidAt(h, s.backref, as_isize(s.len))
    THEN [heap |-> h, set |-> s, ub |-> TRUE]
    ELSE [heap |-> Store(Store(h, s.sparse, as_isize(key), s.len),
                         s.backref, as_isize(s.len), key),
          set  |-> [s EXCEPT !.len = s.len + 1],
          ub   |-> FALSE]

\* unchecked_remove that drops the last slot without moving its key.
unchecked_remove_no_swap(h, s, key) ==
    IF ~ValidAt(h, s.sparse, key) \/ ~ValidAt(h, s.backref, s.len - 1)
    THEN [heap |-> h, set |-> s, ub |-> TRUE]
    ELSE [heap |-> h, set |-> [s EXCEPT !.len = s.len - 1], ub |-> FALSE]

\* unchecked_remove that moves the last key but leaves its sparse entry behind.
unchecked_remove_no_fixup(h, s, key) ==
    LET bad == [heap |-> h, set |-> s, ub |-> TRUE]
    IN  IF ~ValidAt(h, s.sparse, key) \/ ~ValidAt(h, s.backref, s.len - 1) THEN bad
        ELSE LET to_delete_index == Load(h, s.sparse, key)
                 moved_key == Load(h, s.backref, s.len - 1)
             IN  IF to_delete_index = Uninit \/ moved_key = Uninit
                    \/ ~ValidAt(h, s.backref, to_delete_index)
                 THEN bad
                 ELSE [heap |-> Store(h, s.backref, to_delete_index, moved_key),
                       set  |-> [s EXCEPT !.len = s.len - 1],
                       ub   |-> FALSE]

\* unchecked_remove that decrements the length before it locates the last key.
unchecked_remove_stale_last(h, s, key) ==
    LET bad == [heap |-> h, set |-> s, ub |-> TRUE]
    IN  IF ~ValidAt(h, s.sparse, key) \/ ~ValidAt(h, s.backref, s.len - 2) THEN bad
        ELSE LET to_delete_index == Load(h, s.sparse, key)
                 moved_key == Load(h, s.backref, s.len - 2)
             IN  IF to_delete_index = Uninit \/ moved_key = Uninit
                    \/ ~ValidAt(h, s.backref, to_delete_index)
                    \/ ~ValidAt(h, s.sparse, moved_key)
                 THEN bad
                 ELSE [heap |-> Store(Store(h, s.backref, to_delete_index, moved_key),
                                      s.sparse, moved_key, to_delete_index),
                       set  |-> [s EXCEPT !.len = s.len - 1],
                       ub   |-> FALSE]

unchecked_remove(h, s, key) ==
    LET bad  == [heap |-> h, set |-> s, ub |-> TRUE]
        lastp == as_isize(s.len) - 1
    IN  IF ~ValidAt(h, s.sparse, as_isize(key)) \/ ~ValidAt(h, s.backref, lastp) THEN bad
        ELSE LET to_delete_index == Load(h, s.sparse, as_isize(key))
                 moved_key == Load(h, s.backref, lastp)
             IN  IF to_delete_index = Uninit \/ moved_key = Uninit
                    \/ ~ValidAt(h, s.backref, as_isize(to_delete_index))
                    \/ ~ValidAt(h, s.sparse, as_isize(moved_key))
                 THEN bad
                 ELSE [heap |-> Store(Store(h, s.backref, as_isize(to_delete_index), moved_key),
                                      s.sparse, as_isize(moved_key), to_delete_index),
                       set  |-> [s EXCEPT !.len = s.len - 1],
                       ub   |-> FALSE]

\* add rejecting only keys above the capacity, not the capacity itself.
add_bound_off_by_one(h, s, key) ==
    IF key > s.cap
    THEN {[heap |-> h, set |-> s, ub |-> FALSE, res |-> OutOfBounds(s.cap, key)]}
    ELSE {IF c = "ub" THEN [heap |-> h, set |-> s, ub |-> TRUE, res |-> Ok]
          ELSE IF c = "false"
               THEN LET m == unchecked_add(h, s, key)
                    IN  [heap |-> m.heap, set |-> m.set, ub |-> m.ub, res |-> Ok]
               ELSE [heap |-> h, set |-> s, ub |-> FALSE, res |-> Ok]
          : c \in unchecked_contains(h, s, key)}

\* add appending without asking whether the key is already there.
add_unconditional(h, s, key) ==
    IF key >= s.cap
    THEN {[heap |-> h, set |-> s, ub |-> FALSE, res |-> OutOfBounds(s.cap, key)]}
    ELSE LET m == unchecked_add(h, s, key)
         IN  {[heap |-> m.heap, set |-> m.set, ub |-> m.ub, res |-> Ok]}

\* The possible results of add: the machine after the call and what it returns.
add(h, s, key) ==
    IF key >= s.cap
    THEN {[heap |-> h, set |-> s, ub |-> FALSE, res |-> OutOfBounds(s.cap, key)]}
    ELSE {IF c = "ub" THEN [heap |-> h, set |-> s, ub |-> TRUE, res |-> Ok]
          ELSE IF c = "false"
               THEN LET m == unchecked_add(h, s, key)
                    IN  [heap |-> m.heap, set |-> m.set, ub |-> m.ub, res |-> Ok]
               ELSE [heap |-> h, set |-> s, ub |-> FALSE, res |-> Ok]
          : c \in unchecked_contains(h, s, key)}

remove(h, s, key) ==
    IF key >= s.cap
    THEN {[heap |-> h, set |-> s, ub |-> FALSE, res |-> OutOfBounds(s.cap, key)]}
    ELSE {IF c = "ub" THEN [heap |-> h, set |-> s, ub |-> TRUE, res |-> Ok]
          ELSE IF c = "true"
               THEN LET m == unchecked_remove(h, s, key)
                    IN  [heap |-> m.heap, set |-> m.set, ub |-> m.ub, res |-> Ok]
               ELSE [heap |-> h, set |-> s, ub |-> FALSE, res |-> Ok]
          : c \in unchecked_contains(h, s, key)}

\* clear that also resets the capacity.
clear_reset_cap(s) == [s EXCEPT !.len = 0, !.cap = 0]

\* clear comparing the length with 0 instead of assigning it.
clear_noop(s) == s

clear(s) == [s EXCEPT !.len = 0]

len(s) == s.len

cap(s) == s.cap

\* keys(): the slice backref[0 .. len).
KeysDefined(h, s) ==
    s.len = 0 \/ (IsBlock(h, s.backref) /\ s.len <= Len(h[s.backref].data))

keys(h, s) == IF s.len = 0 THEN <<>> ELSE SubSeq(h[s.backref].data, 1, s.len)

\* for key in source { self.unchecked_add(*key) }
RECURSIVE AddAll(_, _)
AddAll(m, ks) ==
    IF ks = <<>> \/ m.ub THEN m
    ELSE IF Head(ks) = Uninit THEN [m EXCEPT !.ub = TRUE]
    ELSE AddAll(unchecked_add(m.heap, m.set, Head(ks)), Tail(ks))

\* clone sizing the new set by the length instead of the capacity.
clone_len_capacity(h, s) ==
    LET n == new(h, s.len)
    IN  IF ~KeysDefined(h, s) THEN [heap |-> h, set |-> n.set, ub |-> TRUE]
        ELSE AddAll([heap |-> n.heap, set |-> n.set, ub |-> FALSE], keys(h, s))

\* clone copying the fields, so that both sets point at the same buffers.
clone_shallow(h, s) == [heap |-> h, set |-> s, ub |-> FALSE]

\* clone re-inserting the keys from the last to the first.
clone_reversed(h, s) ==
    LET n == new(h, s.cap)
        ks == keys(h, s)
    IN  IF ~KeysDefined(h, s) THEN [heap |-> h, set |-> n.set, ub |-> TRUE]
        ELSE AddAll([heap |-> n.heap, set |-> n.set, ub |-> FALSE],
                    [j \in 1..Len(ks) |-> ks[Len(ks) + 1 - j]])

clone(h, s) ==
    LET n == new(h, s.cap)
    IN  IF ~KeysDefined(h, s) THEN [heap |-> h, set |-> n.set, ub |-> TRUE]
        ELSE AddAll([heap |-> n.heap, set |-> n.set, ub |-> FALSE], keys(h, s))

\* drop: both buffers are released.
drop(h, s) ==
    LET d1 == dealloc(h, s.sparse)
        d2 == dealloc(d1.heap, s.backref)
    IN  [heap |-> d2.heap, ub |-> d1.ub \/ d2.ub]

\* clone_from that reuses equal-capacity buffers without clearing them first.
clone_from_no_clear(h, self, source, fs, fb) ==
    IF ~KeysDefined(h, source)
    THEN [heap |-> h, set |-> self, ub |-> TRUE, failed |-> FALSE]
    ELSE LET ks == keys(h, source) IN
    IF self.cap = source.cap
    THEN LET m == AddAll([heap |-> h, set |-> self, ub |-> FALSE], ks)
         IN  [heap |-> m.heap, set |-> m.set, ub |-> m.ub, failed |-> FALSE]
    ELSE LET sp == IF self.cap > source.cap
                   THEN realloc(h, self.sparse, source.cap, fs)
                   ELSE LET d == dealloc(h, self.sparse)
                            a == alloc_zeroed(d.heap, source.cap, fs)
                        IN  [heap |-> a.heap, ptr |-> a.ptr, ub |-> d.ub]
             br == realloc(sp.heap, self.backref, source.cap, fb)
             s2 == [self EXCEPT !.sparse = sp.ptr, !.backref = br.ptr,
                                !.len = 0, !.cap = source.cap]
             m  == AddAll([heap |-> br.heap, set |-> s2, ub |-> sp.ub \/ br.ub], ks)
         IN  [heap |-> m.heap, set |-> m.set, ub |-> m.ub,
              failed |-> (sp.ptr = Null \/ br.ptr = Null)]

\* clone_from that keeps the old length when the capacities differ.
clone_from_keep_len(h, self, source, fs, fb) ==
    IF ~KeysDefined(h, source)
    THEN [heap |-> h, set |-> self, ub |-> TRUE, failed |-> FALSE]
    ELSE LET ks == keys(h, source) IN
    IF self.cap = source.cap
    THEN LET m == AddAll([heap |-> h, set |-> clear(self), ub |-> FALSE], ks)
         IN  [heap |-> m.heap, set |-> m.set, ub |-> m.ub, failed |-> FALSE]
    ELSE LET sp == IF self.cap > source.cap
                   THEN realloc(h, self.sparse, source.cap, fs)
                   ELSE LET d == dealloc(h, self.sparse)
                            a == alloc_zeroed(d.heap, source.cap, fs)
                        IN  [heap |-> a.heap, ptr |-> a.ptr, ub |-> d.ub]
             br == realloc(sp.heap, self.backref, source.cap, fb)
             s2 == [self EXCEPT !.sparse = sp.ptr, !.backref = br.ptr,
                                !.cap = source.cap]
             m  == AddAll([heap |-> br.heap, set |-> s2, ub |-> sp.ub \/ br.ub], ks)
         IN  [heap |-> m.heap, set |-> m.set, ub |-> m.ub,
              failed |-> (sp.ptr = Null \/ br.ptr = Null)]

\* clone_from that resizes the sparse buffer only.
clone_from_no_backref_realloc(h, self, source, fs, fb) ==
    IF ~KeysDefined(h, source)
    THEN [heap |-> h, set |-> self, ub |-> TRUE, failed |-> FALSE]
    ELSE LET ks == keys(h, source) IN
    IF self.cap = source.cap
    THEN LET m == AddAll([heap |-> h, set |-> clear(self), ub |-> FALSE], ks)
         IN  [heap |-> m.heap, set |-> m.set, ub |-> m.ub, failed |-> FALSE]
    ELSE LET sp == IF self.cap > source.cap
                   THEN realloc(h, self.sparse, source.cap, fs)
                   ELSE LET d == dealloc(h, self.sparse)
                            a == alloc_zeroed(d.heap, source.cap, fs)
                        IN  [heap |-> a.heap, ptr |-> a.ptr, ub |-> d.ub]
             br == [heap |-> sp.heap, ptr |-> self.backref, ub |-> FALSE]
             s2 == [self EXCEPT !.sparse = sp.ptr, !.backref = br.ptr,
                                !.len = 0, !.cap = source.cap]
             m  == AddAll([heap |-> br.heap, set |-> s2, ub |-> sp.ub \/ br.ub], ks)
         IN  [heap |-> m.heap, set |-> m.set, ub |-> m.ub,
              failed |-> (sp.ptr = Null \/ br.ptr = Null)]

\* clone_from; fs, fb: the allocator refuses the sparse / the backref request.
clone_from(h, self, source, fs, fb) ==
    IF ~KeysDefined(h, source)
    THEN [heap |-> h, set |-> self, ub |-> TRUE, failed |-> FALSE]
    ELSE LET ks == keys(h, source) IN
    IF self.cap = source.cap
    THEN LET m == AddAll([heap |-> h, set |-> clear(self), ub |-> FALSE], ks)
         IN  [heap |-> m.heap, set |-> m.set, ub |-> m.ub, failed |-> FALSE]
    ELSE LET sp == IF self.cap > source.cap
                   THEN realloc(h, self.sparse, source.cap, fs)
                   ELSE LET d == dealloc(h, self.sparse)
                            a == alloc_zeroed(d.heap, source.cap, fs)
                        IN  [heap |-> a.heap, ptr |-> a.ptr, ub |-> d.ub]
             br == realloc(sp.heap, self.backref, source.cap, fb)
             s2 == [self EXCEPT !.sparse = sp.ptr, !.backref = br.ptr,
                                !.len = 0, !.cap = source.cap]
             m  == AddAll([heap |-> br.heap, set |-> s2, ub |-> sp.ub \/ br.ub], ks)
         IN  [heap |-> m.heap, set |-> m.set, ub |-> m.ub,
              failed |-> (sp.ptr = Null \/ br.ptr = Null)]

----------------------------------------------------------------------------
\* The variant that leaves the sparse buffer uninitialised as well: new,
\* clone and a growing clone_from obtain it with alloc, and it then holds
\* whatever the memory held before (junk).

Junk(n) == [1..n -> 0..MaxJunk]

alloc_junk(h, junk) ==
    LET a == alloc(h, Len(junk), FALSE)
    IN  IF a.ptr = Null THEN a
        ELSE [heap |-> [a.heap EXCEPT ![a.ptr].data = junk], ptr |-> a.ptr]

new_uninit(h, n, junk) ==
    LET a1 == alloc_junk(h, junk)
        a2 == alloc(a1.heap, n, FALSE)
    IN  [heap |-> a2.heap,
         set  |-> [alive |-> TRUE, sparse |-> a1.ptr, backref |-> a2.ptr,
                   len |-> 0, cap |-> n]]

clone_uninit(h, s, junk) ==
    LET n == new_uninit(h, s.cap, junk)
    IN  IF ~KeysDefined(h, s) THEN [heap |-> h, set |-> n.set, ub |-> TRUE]
        ELSE AddAll([heap |-> n.heap, set |-> n.set, ub |-> FALSE], keys(h, s))

clone_from_uninit(h, self, source, junk) ==
    IF ~KeysDefined(h, source)
    THEN [heap |-> h, set |-> self, ub |-> TRUE]
    ELSE LET ks == keys(h, source) IN
    IF self.cap = source.cap
    THEN AddAll([heap |-> h, set |-> clear(self), ub |-> FALSE], ks)
    ELSE LET sp == IF self.cap > source.cap
                   THEN realloc(h, self.sparse, source.cap, FALSE)
                   ELSE LET d == dealloc(h, self.sparse)
                            a == alloc_junk(d.heap, junk)
                        IN  [heap |-> a.heap, ptr |-> a.ptr, ub |-> d.ub]
             br == realloc(sp.heap, self.backref, source.cap, FALSE)
             s2 == [self EXCEPT !.sparse = sp.ptr, !.backref = br.ptr,
                                !.len = 0, !.cap = source.cap]
         IN  AddAll([heap |-> br.heap, set |-> s2, ub |-> sp.ub \/ br.ub], ks)

----------------------------------------------------------------------------
\* The reference set: what a set rebuilt from scratch would hold.

Range(q) == {q[j] : j \in 1..Len(q)}

IndexOf(q, k) == CHOOSE j \in 1..Len(q) : q[j] = k

RefAdd(q, k) == IF k \in Range(q) THEN q ELSE Append(q, k)

RefRemove(q, k) ==
    IF k \notin Range(q) THEN q
    ELSE LET moved == [q EXCEPT ![IndexOf(q, k)] = q[Len(q)]]
         IN  SubSeq(moved, 1, Len(q) - 1)

----------------------------------------------------------------------------
\* The program: calls on the sets held in the slots.

Call(op, slot, src, key, res, failed) ==
    [op |-> op, slot |-> slot, src |-> src, key |-> key, res |-> res, failed |-> failed]

FailChoices == IF oom THEN BOOLEAN ELSE {FALSE}

Init0 ==
    /\ heap = [a \in Addrs |-> FreeBlock]
    /\ sets = [i \in Slots |-> NoSet]
    /\ ub = FALSE
    /\ present = [i \in Slots |-> {}]
    /\ ref = [i \in Slots |-> <<>>]
    /\ created_cap = [i \in Slots |-> 0]
    /\ origin = [i \in Slots |-> "none"]
    /\ last = Call("init", 0, 0, 0, Ok, FALSE)

Init == Init0 /\ oom = FALSE

InitAlloc == Init0 /\ oom = TRUE

New(i, c) ==
    /\ ~ub /\ ~sets[i].alive
    /\ LET n == new(heap, c)
       IN  /\ heap' = n.heap
           /\ sets' = [sets EXCEPT ![i] = n.set]
           /\ created_cap' = IF n.err THEN created_cap ELSE [created_cap EXCEPT ![i] = c]
           /\ origin' = IF n.err THEN origin ELSE [origin EXCEPT ![i] = "new"]
           /\ last' = Call("new", i, 0, c, IF n.err THEN LayoutError ELSE Ok, FALSE)
    /\ present' = [present EXCEPT ![i] = {}]
    /\ ref' = [ref EXCEPT ![i] = <<>>]
    /\ UNCHANGED <<ub, oom>>

Add(i, k) ==
    /\ ~ub /\ sets[i].alive
    /\ \E r \in add(heap, sets[i], k) :
        /\ ub' = r.ub
        /\ heap' = IF r.ub THEN heap ELSE r.heap
        /\ sets' = IF r.ub THEN sets ELSE [sets EXCEPT ![i] = r.set]
        /\ last' = Call("add", i, 0, k, r.res, FALSE)
    /\ present' = IF k < sets[i].cap
                  THEN [present EXCEPT ![i] = @ \cup {k}] ELSE present
    /\ ref' = IF k < sets[i].cap THEN [ref EXCEPT ![i] = RefAdd(@, k)] ELSE ref
    /\ UNCHANGED <<oom, created_cap, origin>>

Remove(i, k) ==
    /\ ~ub /\ sets[i].alive
    /\ \E r \in remove(heap, sets[i], k) :
        /\ ub' = r.ub
        /\ heap' = IF r.ub THEN heap ELSE r.heap
        /\ sets' = IF r.ub THEN sets ELSE [sets EXCEPT ![i] = r.set]
        /\ last' = Call("remove", i, 0, k, r.res, FALSE)
    /\ present' = IF k < sets[i].cap
                  THEN [present EXCEPT ![i] = @ \ {k}] ELSE present
    /\ ref' = IF k < sets[i].cap THEN [ref EXCEPT ![i] = RefRemove(@, k)] ELSE ref
    /\ UNCHANGED <<oom, created_cap, origin>>

Clear(i) ==
    /\ ~ub /\ sets[i].alive
    /\ sets' = [sets EXCEPT ![i] = clear(@)]
    /\ present' = [present EXCEPT ![i] = {}]
    /\ ref' = [ref EXCEPT ![i] = <<>>]
    /\ last' = Call("clear", i, 0, 0, Ok, FALSE)
    /\ UNCHANGED <<heap, ub, oom, created_cap, origin>>

Clone(src, dst) ==
    /\ ~ub /\ src # dst /\ sets[src].alive /\ ~sets[dst].alive
    /\ LET m == clone(heap, sets[src])
       IN  /\ ub' = m.ub
           /\ heap' = IF m.ub THEN heap ELSE m.heap
           /\ sets' = IF m.ub THEN sets ELSE [sets EXCEPT ![dst] = m.set]
    /\ present' = [present EXCEPT ![dst] = present[src]]
    /\ ref' = [ref EXCEPT ![dst] = ref[src]]
    /\ created_cap' = [created_cap EXCEPT ![dst] = sets[src].cap]
    /\ origin' = [origin EXCEPT ![dst] = "clone"]
    /\ last' = Call("clone", dst, src, 0, Ok, FALSE)
    /\ UNCHANGED oom

CloneFrom(dst, src) ==
    /\ ~ub /\ src # dst /\ sets[src].alive /\ sets[dst].alive
    /\ \E fs \in FailChoices, fb \in FailChoices :
        LET m == clone_from(heap, sets[dst], sets[src], fs, fb)
        IN  /\ ub' = m.ub
            /\ heap' = IF m.ub THEN heap ELSE m.heap
            /\ sets' = IF m.ub THEN sets ELSE [sets EXCEPT ![dst] = m.set]
            /\ last' = Call("clone_from", dst, src, 0, Ok, m.failed)
    /\ present' = [present EXCEPT ![dst] = present[src]]
    /\ ref' = [ref EXCEPT ![dst] = ref[src]]
    /\ origin' = [origin EXCEPT ![dst] = "clone_from"]
    /\ UNCHANGED <<oom, created_cap>>

Drop(i) ==
    /\ ~ub /\ sets[i].alive
    /\ LET d == drop(heap, sets[i])
       IN  /\ ub' = d.ub
           /\ heap' = IF d.ub THEN heap ELSE d.heap
           /\ sets' = IF d.ub THEN sets ELSE [sets EXCEPT ![i] = NoSet]
    /\ present' = [present EXCEPT ![i] = {}]
    /\ ref' = [ref EXCEPT ![i] = <<>>]
    /\ created_cap' = [created_cap EXCEPT ![i] = 0]
    /\ origin' = [origin EXCEPT ![i] = "none"]
    /\ last' = Call("drop", i, 0, 0, Ok, FALSE)
    /\ UNCHANGED oom

\* One set alone: new, then any sequence of add/remove/clear, then drop.
NextOne ==
    \/ \E c \in Caps(MaxCap) : New(1, c)
    \/ \E k \in KeysFor(MaxCap) : Add(1, k)
    \/ \E k \in KeysFor(MaxCap) : Remove(1, k)
    \/ Clear(1)
    \/ Drop(1)

SpecOne == Init /\ [][NextOne]_vars

\* Two sets, each held until the end of the program: the same calls on either,
\* and clone / clone_from between them.
Next ==
    \/ \E i \in Slots, c \in Caps(PairCap) : New(i, c)
    \/ \E i \in Slots, k \in KeysFor(PairCap) : Add(i, k)
    \/ \E i \in Slots, k \in KeysFor(PairCap) : Remove(i, k)
    \/ \E i \in Slots : Clear(i)
    \/ \E s \in Slots, d \in Slots : Clone(s, d)
    \/ \E d \in Slots, s \in Slots : CloneFrom(d, s)

Spec == Init /\ [][Next]_vars

\* Two sets filled by add, and clone_from between them, on an allocator that
\* may refuse the requests clone_from makes.
NextAlloc ==
    \/ \E i \in Slots, c \in Caps(PairCap) : New(i, c)
    \/ \E i \in Slots, k \in KeysFor(PairCap) : Add(i, k)
    \/ \E d \in Slots, s \in Slots : CloneFrom(d, s)

SpecAlloc == InitAlloc /\ [][NextAlloc]_vars

\* The variant with an uninitialised sparse buffer: two sets, the same calls,
\* and every block the variant does not initialise holding any junk.
NewUninit(i, c) ==
    /\ ~ub /\ ~sets[i].alive
    /\ \E junk \in Junk(c) :
        LET n == new_uninit(heap, c, junk)
        IN  /\ heap' = n.heap
            /\ sets' = [sets EXCEPT ![i] = n.set]
    /\ present' = [present EXCEPT ![i] = {}]
    /\ ref' = [ref EXCEPT ![i] = <<>>]
    /\ last' = Call("new", i, 0, c, Ok, FALSE)
    /\ UNCHANGED <<ub, oom, created_cap, origin>>

CloneUninit(src, dst) ==
    /\ ~ub /\ src # dst /\ sets[src].alive /\ ~sets[dst].alive
    /\ \E junk \in Junk(sets[src].cap) :
        LET m == clone_uninit(heap, sets[src], junk)
        IN  /\ ub' = m.ub
            /\ heap' = IF m.ub THEN heap ELSE m.heap
            /\ sets' = IF m.ub THEN sets ELSE [sets EXCEPT ![dst] = m.set]
    /\ present' = [present EXCEPT ![dst] = present[src]]
    /\ ref' = [ref EXCEPT ![dst] = ref[src]]
    /\ last' = Call("clone", dst, src, 0, Ok, FALSE)
    /\ UNCHANGED <<oom, created_cap, origin>>

CloneFromUninit(dst, src) ==
    /\ ~ub /\ src # dst /\ sets[src].alive /\ sets[dst].alive
    /\ \E junk \in Junk(sets[src].cap) :
        LET m == clone_from_uninit(heap, sets[dst], sets[src], junk)
        IN  /\ ub' = m.ub
            /\ heap' = IF m.ub THEN heap ELSE m.heap
            /\ sets' = IF m.ub THEN sets ELSE [sets EXCEPT ![dst] = m.set]
    /\ present' = [present EXCEPT ![dst] = present[src]]
    /\ ref' = [ref EXCEPT ![dst] = ref[src]]
    /\ last' = Call("clone_from", dst, src, 0, Ok, FALSE)
    /\ UNCHANGED <<oom, created_cap, origin>>

NextUninit ==
    \/ \E i \in Slots, c \in Caps(PairCap) : NewUninit(i, c)
    \/ \E i \in Slots, k \in KeysFor(PairCap) : Add(i, k)
    \/ \E i \in Slots, k \in KeysFor(PairCap) : Remove(i, k)
    \/ \E i \in Slots : Clear(i)
    \/ \E s \in Slots, d \in Slots : CloneUninit(s, d)
    \/ \E d \in Slots, s \in Slots : CloneFromUninit(d, s)

SpecUninit == Init /\ [][NextUninit]_vars

\* One set created with any capacity a usize can hold, then used at the two
\* ends of its key range (0, cap - 1) and just past it (cap).
EdgeKeys == {k \in {0, sets[1].cap - 1, sets[1].cap} : k >= 0}

NextLayout ==
    \/ \E c \in 0..UsizeMax : New(1, c)
    \/ \E k \in EdgeKeys : Add(1, k)
    \/ \E k \in EdgeKeys : Remove(1, k)
    \/ Drop(1)

SpecLayout == Init /\ [][NextLayout]_vars

----------------------------------------------------------------------------
\* Properties

Answer(b) == IF b THEN {"true"} ELSE {"false"}

NoDuplicates(q) == \A a, b \in 1..Len(q) : a # b => q[a] # q[b]

\* C1: after every add/remove/clear with keys below the capacity, len() is the
\* number of keys added and not since removed or cleared, and keys() holds
\* exactly those keys, each once.
C1_LenAndKeys ==
    sets[1].alive =>
        /\ ~ub
        /\ len(sets[1]) = Cardinality(present[1])
        /\ KeysDefined(heap, sets[1])
        /\ Range(keys(heap, sets[1])) = present[1]
        /\ NoDuplicates(keys(heap, sets[1]))

\* A remove of a first-position key has left two of three keys.
C1_Witness ==
    /\ last.op = "remove" /\ last.res = Ok
    /\ last.key \notin present[1]
    /\ Cardinality(present[1]) = 2
    /\ Load(heap, sets[1].sparse, last.key) = 0
    /\ Load(heap, sets[1].backref, 2) = Load(heap, sets[1].backref, 0)

\* C2: for every key below the capacity, contains(k) is true exactly when k
\* was added and not since removed or cleared, which is exactly when
\* sparse[k] < len and dense[sparse[k]] = k; a fresh set contains nothing.
C2_Membership ==
    sets[1].alive =>
        /\ ~ub
        /\ \A k \in 0..(cap(sets[1]) - 1) :
            /\ contains(heap, sets[1], k) = Answer(k \in present[1])
            /\ ValidAt(heap, sets[1].sparse, k)
            /\ LET index == Load(heap, sets[1].sparse, k)
               IN  k \in present[1] <=>
                     /\ index < len(sets[1])
                     /\ ValidAt(heap, sets[1].backref, index)
                     /\ Load(heap, sets[1].backref, index) = k
        /\ (last.op = "new" => \A k \in Keys : contains(heap, sets[1], k) = {"false"})

\* A removed key whose stale sparse entry still points below len.
C2_Witness ==
    /\ last.op = "remove" /\ last.res = Ok
    /\ last.key < cap(sets[1])
    /\ last.key \notin present[1]
    /\ len(sets[1]) = 2
    /\ Load(heap, sets[1].sparse, last.key) = 1

C4_CapFixed ==
    \A i \in Slots : sets[i].alive => cap(sets[i]) = created_cap[i]

\* C5: add of a present key and remove of an absent key below the capacity
\* return Ok and leave the whole state as it was.
C5_RedundantNoOp ==
    [][ ( \/ (last'.op = "add" /\ last'.key \in present[last'.slot])
          \/ (last'.op = "remove" /\ last'.key < cap(sets[last'.slot])
                /\ last'.key \notin present[last'.slot]) ) =>
            /\ last'.res = Ok
            /\ ~ub'
            /\ sets' = sets
            /\ heap' = heap
            /\ present' = present
      ]_vars

\* add was called for a key that is present and is not the last one appended.
C5_Witness ==
    /\ last.op = "add" /\ last.res = Ok
    /\ last.key \in present[1]
    /\ len(sets[1]) >= 2
    /\ Load(heap, sets[1].backref, len(sets[1]) - 1) # last.key

\* C6: S2 = S.clone() has the capacity, the length and, for every key below
\* the capacity, the contains answer of S.
C6_CloneRoundTrip ==
    last.op = "clone" =>
        LET S2 == sets[last.slot]
            S  == sets[last.src]
        IN  /\ ~ub
            /\ cap(S2) = cap(S)
            /\ len(S2) = len(S)
            /\ \A k \in 0..(cap(S) - 1) :
                /\ contains(heap, S2, k) = contains(heap, S, k)
                /\ contains(heap, S2, k) = Answer(k \in present[last.src])

\* A clone of a set that holds a key and has lost another.
C6_Witness ==
    /\ last.op = "clone"
    /\ cap(sets[last.src]) >= 2
    /\ len(sets[last.src]) = 1
    /\ Load(heap, sets[last.src].backref, 1) # Uninit
    /\ contains(heap, sets[last.slot], Load(heap, sets[last.src].backref, 0)) = {"true"}

\* What a caller can observe of a set.
Observable(h, s) ==
    [len |-> len(s), cap |-> cap(s), keys |-> keys(h, s),
     member |-> [k \in Keys |-> contains(h, s, k)]]

\* C7: add/remove/clear on one set leaves the other set's len, keys and
\* contains answers unchanged, also when one is a clone of the other.
C7_CloneIndependence ==
    [][ \A i \in Slots, j \in Slots :
          (i # j /\ sets[j].alive /\ last'.op \in {"add", "remove", "clear"}
             /\ last'.slot = i) =>
            /\ ~ub'
            /\ sets'[j] = sets[j]
            /\ Observable(heap', sets'[j]) = Observable(heap, sets[j])
      ]_vars

\* The original was cleared and its clone still holds two keys.
C7_Witness ==
    /\ last.op = "clear"
    /\ \E j \in Slots \ {last.slot} :
        /\ origin[j] = "clone"
        /\ len(sets[j]) = 2
        /\ \A k \in present[j] : contains(heap, sets[j], k) = {"true"}
    /\ Load(heap, sets[last.slot].backref, 1) # Uninit
    /\ \A k \in Keys : contains(heap, sets[last.slot], k) = {"false"}

\* C8: after D.clone_from(&S), whatever D held and whatever the two
\* capacities were, D.len() = S.len() and D.contains(k) = S.contains(k) for
\* every key k.
C8_CloneFromMembership ==
    last.op = "clone_from" =>
        LET D == sets[last.slot]
            S == sets[last.src]
        IN  /\ ~ub /\ ~last.failed
            /\ len(D) = len(S)
            /\ len(D) = Cardinality(present[last.src])
            /\ \A k \in Keys :
                /\ contains(heap, D, k) = contains(heap, S, k)
                /\ contains(heap, D, k) = Answer(k \in present[last.src])

\* clone_from changed the capacity and left an absent key whose sparse entry
\* points below len.
C8_Witness ==
    /\ last.op = "clone_from"
    /\ cap(sets[last.slot]) # created_cap[last.slot]
    /\ \E k \in 0..(cap(sets[last.slot]) - 1) :
        /\ k \notin present[last.slot]
        /\ Load(heap, sets[last.slot].sparse, k) < len(sets[last.slot])

\* C9: after clear, len() is 0 and contains is false for every key, and from
\* then on the set shows what a fresh set of the same capacity shows under
\* the same calls (the reference set, which clear resets to the fresh one).
C9_ClearThenFresh ==
    sets[1].alive =>
        /\ ~ub
        /\ (last.op = "clear" =>
              /\ len(sets[1]) = 0
              /\ ref[1] = <<>>
              /\ \A k \in Keys : contains(heap, sets[1], k) = {"false"})
        /\ cap(sets[1]) = created_cap[1]
        /\ KeysDefined(heap, sets[1])
        /\ keys(heap, sets[1]) = ref[1]
        /\ \A k \in Keys : contains(heap, sets[1], k) = Answer(k \in Range(ref[1]))

\* clear was called on a set whose buffers hold two earlier keys.
C9_Witness ==
    /\ last.op = "clear"
    /\ cap(sets[1]) >= 2
    /\ Load(heap, sets[1].backref, 0) # Uninit
    /\ Load(heap, sets[1].backref, 1) # Uninit
    /\ \E k \in 0..(cap(sets[1]) - 1) : Load(heap, sets[1].sparse, k) = 1

\* C10: a clone_from in which an allocation or reallocation fails leaves the
\* destination (capacity, length, both buffers) as it was.
C10_FailureAtomic ==
    [][ (last'.op = "clone_from" /\ last'.failed) =>
            /\ ~ub'
            /\ sets' = sets
            /\ heap' = heap
      ]_vars

\* C13: remove(k) of a present key with idx = sparse[k] and movedKey =
\* dense[len-1] leaves dense[idx] = movedKey, sparse[movedKey] = idx, len one
\* less, the other dense positions below the new len unchanged, every other
\* present key present and k absent (also when k is the last dense element).
C13_SwapRemoveStep ==
    [][ (last'.op = "remove" /\ last'.key \in present[1]) =>
          LET s   == sets[1]
              k   == last'.key
              idx == Load(heap, s.sparse, k)
              movedKey == Load(heap, s.backref, len(s) - 1)
          IN  /\ ~ub' /\ last'.res = Ok
              /\ Load(heap', sets'[1].backref, idx) = movedKey
              /\ Load(heap', sets'[1].sparse, movedKey) = idx
              /\ len(sets'[1]) = len(s) - 1
              /\ \A j \in 0..(len(s) - 2) :
                    j # idx => Load(heap', sets'[1].backref, j) = Load(heap, s.backref, j)
              /\ \A q \in present[1] \ {k} : contains(heap', sets'[1], q) = {"true"}
              /\ contains(heap', sets'[1], k) = {"false"}
              /\ (movedKey = k <=> idx = len(s) - 1)
      ]_vars

\* The removed key was the last dense element: its entries still show it at
\* the position that is now the length, with another key left before it.
C13_Witness ==
    /\ last.op = "remove" /\ last.res = Ok
    /\ last.key < cap(sets[1]) /\ last.key \notin present[1]
    /\ len(sets[1]) >= 1
    /\ Load(heap, sets[1].sparse, last.key) = len(sets[1])
    /\ Load(heap, sets[1].backref, len(sets[1])) = last.key

\* C14: add(k) of an absent key below the capacity, at length L, leaves
\* sparse[k] = L, dense[L] = k, len = L + 1, dense[0..L) unchanged and
\* sparse[j] unchanged for every j # k.
C14_AppendStep ==
    [][ (last'.op = "add" /\ last'.key < cap(sets[1]) /\ last'.key \notin present[1]) =>
          LET s == sets[1]
              k == last'.key
              L == len(s)
          IN  /\ ~ub' /\ last'.res = Ok
              /\ Load(heap', sets'[1].sparse, k) = L
              /\ Load(heap', sets'[1].backref, L) = k
              /\ len(sets'[1]) = L + 1
              /\ \A j \in 0..(L - 1) :
                    Load(heap', sets'[1].backref, j) = Load(heap, s.backref, j)
              /\ \A j \in 0..(cap(s) - 1) :
                    j # k => Load(heap', sets'[1].sparse, j) = Load(heap, s.sparse, j)
              /\ sets'[1] = [s EXCEPT !.len = L + 1]
      ]_vars

\* A key was appended behind two others.
C14_Witness ==
    /\ last.op = "add" /\ last.res = Ok
    /\ last.key \in present[1]
    /\ len(sets[1]) = 3
    /\ Load(heap, sets[1].sparse, last.key) = 2
    /\ Load(heap, sets[1].backref, 2) = last.key

\* C15: clear() leaves the sparse buffer, the dense buffer and cap as they
\* were, and sets len to 0.
C15_ClearFrame ==
    [][ last'.op = "clear" =>
          /\ ~ub'
          /\ heap' = heap
          /\ cap(sets'[1]) = cap(sets[1])
          /\ len(sets'[1]) = 0
          /\ sets'[1] = [sets[1] EXCEPT !.len = 0]
      ]_vars

\* clear was called on a set that held three keys.
C15_Witness ==
    /\ last.op = "clear"
    /\ cap(sets[1]) = 3 /\ len(sets[1]) = 0
    /\ \A j \in 0..2 : Load(heap, sets[1].backref, j) # Uninit
    /\ {Load(heap, sets[1].sparse, k) : k \in 0..2} = {0, 1, 2}

\* C16: whenever an absent key k below the capacity has sparse[k] < len, the
\* comparison dense[sparse[k]] = k fails and contains(k) is false.
C16_LengthBoundNotEnough ==
    sets[1].alive =>
        \A k \in 0..(cap(sets[1]) - 1) :
            (k \notin present[1] /\ Load(heap, sets[1].sparse, k) < len(sets[1])) =>
                /\ Load(heap, sets[1].backref, Load(heap, sets[1].sparse, k)) # k
                /\ contains(heap, sets[1], k) = {"false"}
                /\ unchecked_contains(heap, sets[1], k) = {"false"}

\* After a single add on a zero-initialised set another key's sparse entry,
\* still 0, is below the length.
C16_Witness ==
    /\ last.op = "add" /\ last.res = Ok
    /\ cap(sets[1]) >= 2 /\ len(sets[1]) = 1
    /\ Load(heap, sets[1].backref, 1) = Uninit
    /\ \E k \in 0..(cap(sets[1]) - 1) :
        /\ k \notin present[1]
        /\ Load(heap, sets[1].sparse, k) < len(sets[1])

\* C17: in every reachable state of every live set 0 <= len <= cap, and no
\* call has stepped outside that range on the way.
C17_LenWithinCap ==
    /\ ~ub
    /\ \A i \in Slots :
        sets[i].alive => (0 <= len(sets[i]) /\ len(sets[i]) <= cap(sets[i]))

\* add was called on a full set, and the length stayed at the capacity.
C17_Witness ==
    /\ last.op = "add" /\ last.res = Ok
    /\ cap(sets[last.slot]) = 2
    /\ len(sets[last.slot]) = cap(sets[last.slot])
    /\ origin[last.slot] = "clone_from"

\* C18: no call of the checked API touches either buffer outside its cap
\* elements: both buffers are live blocks of exactly cap elements, every
\* access made so far was inside them, and the indices the next contains,
\* add, remove, keys, clone or clone_from would use are below cap.
C18_AccessWithinCap ==
    /\ ~ub
    /\ \A i \in Slots :
        sets[i].alive =>
            LET s == sets[i] IN
            /\ IsBlock(heap, s.sparse) /\ Len(heap[s.sparse].data) = cap(s)
            /\ IsBlock(heap, s.backref) /\ Len(heap[s.backref].data) = cap(s)
            /\ s.sparse # s.backref
            /\ KeysDefined(heap, s)
            /\ \A k \in Keys : "ub" \notin contains(heap, s, k)
            /\ \A k \in Keys : \A m \in add(heap, s, k) \cup remove(heap, s, k) : ~m.ub
            /\ \A j \in 0..(len(s) - 1) :
                  Load(heap, s.backref, j) \in 0..(cap(s) - 1)

\* clone_from grew a set and filled it up to its new last element.
C18_Witness ==
    /\ last.op = "clone_from" /\ ~last.failed
    /\ cap(sets[last.slot]) > created_cap[last.slot]
    /\ len(sets[last.slot]) = cap(sets[last.slot])

\* C19: for every i < len, dense[i] < cap and sparse[dense[i]] = i; so the
\* first len dense entries are pairwise distinct and sparse maps the present
\* keys one-to-one onto 0..len-1.
C19_BackReference ==
    \A i \in Slots :
        sets[i].alive =>
            LET s == sets[i]
                dense(j) == Load(heap, s.backref, j)
                sparse(k) == Load(heap, s.sparse, k)
                L == len(s)
            IN  /\ \A j \in 0..(L - 1) :
                      /\ dense(j) \in 0..(cap(s) - 1)
                      /\ sparse(dense(j)) = j
                /\ \A j1, j2 \in 0..(L - 1) : dense(j1) = dense(j2) => j1 = j2
                /\ {dense(j) : j \in 0..(L - 1)} = present[i]
                /\ {sparse(k) : k \in present[i]} = 0..(L - 1)
                /\ \A k1, k2 \in present[i] : sparse(k1) = sparse(k2) => k1 = k2

\* A swap-remove moved key 1 from position 1 to position 0.
C19_Witness ==
    /\ last.op = "remove" /\ last.res = Ok /\ last.key = 0
    /\ cap(sets[last.slot]) = 2 /\ len(sets[last.slot]) = 1
    /\ Load(heap, sets[last.slot].backref, 0) = 1
    /\ Load(heap, sets[last.slot].backref, 1) = 1
    /\ Load(heap, sets[last.slot].sparse, 1) = 0

\* C20: right after S.clone() and after D.clone_from(&S), the copy's keys()
\* is the same sequence as S.keys().
C20_CloneKeepsOrder ==
    (last.op \in {"clone", "clone_from"} /\ ~last.failed) =>
        /\ ~ub
        /\ KeysDefined(heap, sets[last.slot]) /\ KeysDefined(heap, sets[last.src])
        /\ keys(heap, sets[last.slot]) = keys(heap, sets[last.src])
        /\ keys(heap, sets[last.slot]) = ref[last.src]

\* A set whose keys() is <<1, 0>> was cloned.
C20_Witness ==
    /\ last.op = "clone"
    /\ keys(heap, sets[last.src]) = <<1, 0>>
    /\ keys(heap, sets[last.slot]) = <<1, 0>>

\* C11: whatever the sparse and dense buffers hold before they are written,
\* every result of add, remove, clear, contains, len, keys, clone and
\* clone_from is the one the sequence of calls alone determines (so two runs
\* that differ only in those contents return the same results), and no result
\* depends on a dense slot at an index >= len.
C11_InitialContentsIrrelevant ==
    /\ ~ub
    /\ \A i \in Slots :
        sets[i].alive =>
            LET s == sets[i] IN
            /\ len(s) = Len(ref[i])
            /\ KeysDefined(heap, s) /\ keys(heap, s) = ref[i]
            /\ \A k \in Keys : contains(heap, s, k) = Answer(k \in present[i])
            /\ \A k \in Keys :
                  LET want == IF k < cap(s) THEN Ok ELSE OutOfBounds(cap(s), k)
                  IN  /\ \A m \in add(heap, s, k) : ~m.ub /\ m.res = want
                      /\ \A m \in remove(heap, s, k) : ~m.ub /\ m.res = want
                      /\ Cardinality(add(heap, s, k)) = 1
                      /\ Cardinality(remove(heap, s, k)) = 1
    /\ last.op \in {"clone", "clone_from"} =>
          cap(sets[last.slot]) = cap(sets[last.src])

\* A set whose sparse buffer started with junk that points below the length
\* at a key that was never added, and whose dense buffer is unwritten there
\* after.
C11_Witness ==
    /\ last.op = "add" /\ last.res = Ok
    /\ cap(sets[last.slot]) = 2 /\ len(sets[last.slot]) = 1
    /\ present[last.slot] = {1}
    /\ Load(heap, sets[last.slot].sparse, 0) = 0
    /\ Load(heap, sets[last.slot].sparse, 1) = 0
    /\ Load(heap, sets[last.slot].backref, 1) = Uninit

\* C12: new(cap) returns an error exactly when cap * word size exceeds the
\* largest signed size, so for every cap above isize::MAX; and for every
\* accepted cap the conversions key as isize (key < cap) and len as isize - 1
\* (1 <= len <= cap) keep their value.
C12_LayoutError ==
    /\ last.op = "new" =>
        /\ (last.res = LayoutError) <=> (last.key * WordBytes > IsizeMax)
        /\ last.key > IsizeMax => last.res = LayoutError
        /\ (last.res = LayoutError) <=> ~sets[1].alive
    /\ sets[1].alive =>
        /\ \A key \in 0..(cap(sets[1]) - 1) : as_isize(key) = key
        /\ \A L \in 1..cap(sets[1]) : as_isize(L) - 1 = L - 1
        /\ len(sets[1]) <= cap(sets[1])
    /\ ~ub

\* The largest accepted capacity, used at its highest key and emptied again.
C12_Witness ==
    /\ last.op = "remove" /\ last.res = Ok
    /\ cap(sets[1]) = IsizeMax \div WordBytes
    /\ last.key = cap(sets[1]) - 1
    /\ len(sets[1]) = 0
    /\ Load(heap, sets[1].backref, 0) = last.key

====
